---- MODULE Spec2Model ----
(***************************************************************************)
(* Model of pkg/compose/dependencies.go: the dependency graph (NewGraph,   *)
(* AddVertex, AddEdge, HasCycles) and the concurrent graph traversal       *)
(* (InDependencyOrder, InReverseDependencyOrder, graphTraversal.visit,     *)
(* run, consume) with its errgroup, its coordinator goroutine and its      *)
(* worker goroutines; and of watchContainers in pkg/compose/start.go, the   *)
(* consumer of the engine's events.                                        *)
(***************************************************************************)
EXTENDS Integers, Sequences, FiniteSets, TLC

(***************************************************************************)
(* Bounds of the model.                                                    *)
(***************************************************************************)
\* largest number of dependency declarations in a generated project
MaxDeps == 3
\* largest maxConcurrency option handed to InDependencyOrder
MaxLimit == 2
\* largest number of services whose visitor returns an error
MaxFailing == 1
\* largest number of engine events handed to the consumer of watchContainers
MaxEvents == 3

\* service names of the generated projects
Names == {"A", "B", "C"}
\* the fourth service of the diamond project
DiamondNames == {"A", "B", "C", "D"}

(***************************************************************************)
(* ServiceStatus (iota constants).                                         *)
(***************************************************************************)
ServiceStopped == 0
ServiceStarted == 1

(***************************************************************************)
(* Errors are records; NilErr is Go's nil error.                           *)
(***************************************************************************)
NilErr == [kind |-> "nil", path |-> <<>>]
CouldNotFind(name) == [kind |-> "could not find", path |-> <<name>>]
CycleFound(path) == [kind |-> "cycle found", path |-> path]
VisitorErr(name) == [kind |-> "visitor", path |-> <<name>>]

(***************************************************************************)
(* utils.StringContains and remove on slices.                              *)
(***************************************************************************)
StringContains(slice, item) == \E i \in 1..Len(slice) : slice[i] = item

\* remove that removes nothing
removeNothing(slice, item) == slice

remove(slice, item) == SelectSeq(slice, LAMBDA i : i # item)

(***************************************************************************)
(* Projects: a set of services, each with its declared dependencies        *)
(* (types.Services with GetDependencies).  A dependency may name a service *)
(* that is not part of the project.                                        *)
(***************************************************************************)
RECURSIVE SumCard(_, _)
SumCard(f, S) ==
    IF S = {} THEN 0
    ELSE LET s == CHOOSE x \in S : TRUE
         IN Cardinality(f[s]) + SumCard(f, S \ {s})

Project(svcs, deps) == [services |-> svcs, dependsOn |-> deps]

\* every project over Names with at most MaxDeps dependency declarations
SmallProjects ==
    UNION { { Project(S, d) : d \in { e \in [S -> SUBSET Names] : SumCard(e, S) <= MaxDeps } }
            : S \in SUBSET Names }

\* the place of a name in the alphabet
Rank(n) == CASE n = "A" -> 1 [] n = "B" -> 2 [] n = "C" -> 3 [] OTHER -> 4

\* the projects made of the first services of Names in which a service
\* depends only on itself or on later names (which may be missing from the
\* project): every acyclic project is one of these up to renaming
ForwardProjects ==
    { p \in SmallProjects :
        /\ \A s \in p.services : \A n \in Names : Rank(n) < Rank(s) => n \in p.services
        /\ \A s \in p.services : \A n \in p.dependsOn[s] : Rank(s) <= Rank(n) }

\* A -> {B, C} -> D
Diamond ==
    Project(DiamondNames,
            [s \in DiamondNames |->
                CASE s = "A" -> {"B", "C"}
                  [] s = "B" -> {"D"}
                  [] s = "C" -> {"D"}
                  [] OTHER   -> {}])

\* the projects handed to NewGraph alone
Projects == SmallProjects \cup {Diamond}

\* the projects handed to InDependencyOrder and InReverseDependencyOrder
TraversalProjects == ForwardProjects \cup {Diamond}

(***************************************************************************)
(* Graph: Vertices maps a key to its vertex; Children and Parents hold     *)
(* the keys of the vertices the Go maps point to.                          *)
(***************************************************************************)
EmptyGraph == [k \in {} |-> 0]

NewVertex(key, service, initialStatus) ==
    [Key |-> key, Service |-> service, Status |-> initialStatus,
     Parents |-> {}, Children |-> {}]

AddVertex(g, key, service, initialStatus) ==
    [k \in (DOMAIN g) \cup {key} |->
        IF k = key THEN NewVertex(key, service, initialStatus) ELSE g[k]]

\* AddEdge returns the graph and the error
AddEdge(g, source, destination) ==
    IF source \notin DOMAIN g
      THEN [graph |-> g, err |-> CouldNotFind(source)]
    ELSE IF destination \notin DOMAIN g
      THEN [graph |-> g, err |-> CouldNotFind(destination)]
    ELSE IF destination \in g[source].Children
      THEN [graph |-> g, err |-> NilErr]
    ELSE [graph |->
            [k \in DOMAIN g |->
                [g[k] EXCEPT
                    !.Children = IF k = source THEN @ \cup {destination} ELSE @,
                    !.Parents  = IF k = destination THEN @ \cup {source} ELSE @]],
          err |-> NilErr]

RECURSIVE AddVertices(_, _, _)
AddVertices(g, svcs, initialStatus) ==
    IF svcs = {} THEN g
    ELSE LET s == CHOOSE x \in svcs : TRUE
         IN AddVertices(AddVertex(g, s, s, initialStatus), svcs \ {s}, initialStatus)

\* the declared (service, dependency) pairs of a project
DepPairs(p) == { <<s, n>> \in p.services \X (Names \cup DiamondNames) : n \in p.dependsOn[s] }

\* NewGraph's second loop: the error of AddEdge is discarded
RECURSIVE AddEdges(_, _)
AddEdges(g, pairs) ==
    IF pairs = {} THEN g
    ELSE LET e == CHOOSE x \in pairs : TRUE
         IN AddEdges(AddEdge(g, e[1], e[2]).graph, pairs \ {e})

Leaves(g) == { k \in DOMAIN g : Cardinality(g[k].Children) = 0 }

Roots(g) == { k \in DOMAIN g : Cardinality(g[k].Parents) = 0 }

GetParents(g, k) == g[k].Parents

GetChildren(g, k) == g[k].Children

\* UpdateStatus that loses the write
UpdateStatusLost(g, key, status) == g

UpdateStatus(g, key, status) == [g EXCEPT ![key].Status = status]

\* FilterChildren that never finds a child in the status
FilterChildrenNone(g, key, status) == {}

FilterChildren(g, key, status) == { c \in g[key].Children : g[c].Status = status }

\* FilterParents that never finds a parent in the status
FilterParentsNone(g, key, status) == {}

FilterParents(g, key, status) == { p \in g[key].Parents : g[p].Status = status }


(***************************************************************************)
(* graphTraversal: the two pre-configured shapes.  seen is kept in the     *)
(* variable of the same name.                                              *)
(***************************************************************************)
upDirectionTraversal ==
    [extremityNodesFn            |-> "leaves",
     adjacentNodesFn             |-> "getParents",
     filterAdjacentByStatusFn    |-> "filterChildren",
     adjacentServiceStatusToSkip |-> ServiceStopped,
     targetServiceStatus         |-> ServiceStarted,
     maxConcurrency              |-> 0]

downDirectionTraversal ==
    [extremityNodesFn            |-> "roots",
     adjacentNodesFn             |-> "getChildren",
     filterAdjacentByStatusFn    |-> "filterParents",
     adjacentServiceStatusToSkip |-> ServiceStarted,
     targetServiceStatus         |-> ServiceStopped,
     maxConcurrency              |-> 0]

extremityNodesFn(tr, g) ==
    IF tr.extremityNodesFn = "leaves" THEN Leaves(g) ELSE Roots(g)

adjacentNodesFn(tr, g, k) ==
    IF tr.adjacentNodesFn = "getParents" THEN GetParents(g, k) ELSE GetChildren(g, k)

filterAdjacentByStatusFn(tr, g, k, status) ==
    IF tr.filterAdjacentByStatusFn = "filterChildren"
      THEN FilterChildren(g, k, status)
      ELSE FilterParents(g, k, status)

\* a limit that forgets the coordinator's own slot is already counted
SetLimitTwo(tr) == tr.maxConcurrency + 2

\* eg.SetLimit(t.maxConcurrency + 1)
SetLimit(tr) == tr.maxConcurrency + 1

\* a countdown that starts one too high
InitialExpectPlusOne(g) == Cardinality(DOMAIN g) + 1

\* expect := len(g.Vertices)
InitialExpect(g) == Cardinality(DOMAIN g)

\* consume that does not look at seen
consumeAlways(seenKeys, nodeKey) == TRUE

\* consume: TRUE when nodeKey was not seen yet
consume(seenKeys, nodeKey) == nodeKey \notin seenKeys

AllNames == Names \cup DiamondNames

VARIABLES
    project,      \* the services handed to NewGraph
    failing,      \* the services for which visitorFn returns an error
    pc,           \* position of the calling goroutine
    t,            \* the graphTraversal
    graph,        \* Graph.Vertices
    ngTodo,       \* HasCycles: vertices the outer loop has not reached yet
    discovered,   \* HasCycles: discovered
    finished,     \* HasCycles: finished
    stack,        \* HasCycles: the active calls of Graph.visit, innermost last
    seen,         \* graphTraversal.seen
    expect,       \* the coordinator's countdown
    nodeChClosed, \* close(nodeCh) was called
    coord,        \* position of the coordinator goroutine
    runs,         \* the two calls of run: by the caller ("main") and by the coordinator ("coord")
    worker,       \* per vertex, the goroutines started for it by run
    active,       \* goroutines of the errgroup that have not returned
    egErr,        \* errgroup: the first error
    ctxCancelled, \* errgroup: the shared context was cancelled
    result,       \* what InDependencyOrder / InReverseDependencyOrder returned
    order,        \* the vertices in the order their visitor was called
    containers,   \* watchContainers: the IDs of the initial containers
    required,     \* watchContainers: the required services
    wpc,          \* position of watchContainers
    expected,     \* watchContainers: expected
    watched,      \* watchContainers: watched
    replaced,     \* watchContainers: replaced
    listened,     \* what the listener and the callbacks received, in order
    stopCalled,   \* stop() was called: the context of the subscription is cancelled
    consumerErr,  \* the error the consumer returned to Events
    events,       \* the events the consumer has handled, in order
    wResult       \* what watchContainers returned

vars == <<project, failing, pc, t, graph, ngTodo, discovered, finished, stack,
          seen, expect, nodeChClosed, coord, runs, worker, active, egErr,
          ctxCancelled, result, order, containers, required, wpc, expected,
          watched, replaced, listened, stopCalled, consumerErr, events, wResult>>

graphVars == <<graph, ngTodo, discovered, finished, stack>>
travVars == <<seen, expect, nodeChClosed, coord, runs, worker, active, egErr,
              ctxCancelled, order>>

watchVars == <<containers, required, wpc, expected, watched, replaced, listened,
               stopCalled, consumerErr, events, wResult>>

NoResult == [kind |-> "pending", path |-> <<>>]
IdleRun == [pc |-> "idle", nodes |-> {}, node |-> ""]

\* visitorFn(ctx, node.Service)
visitorFn(service) == IF service \in failing THEN VisitorErr(service) ELSE NilErr

InitState ==
    /\ pc = "start"
    /\ t = upDirectionTraversal
    /\ graph = EmptyGraph
    /\ ngTodo = {}
    /\ discovered = <<>>
    /\ finished = <<>>
    /\ stack = <<>>
    /\ seen = {}
    /\ expect = 0
    /\ nodeChClosed = FALSE
    /\ coord = "none"
    /\ runs = [r \in {"main", "coord"} |-> IdleRun]
    /\ worker = [v \in AllNames |-> <<>>]
    /\ active = 0
    /\ egErr = NilErr
    /\ ctxCancelled = FALSE
    /\ result = NoResult
    /\ order = <<>>

\* watchContainers has not been called
WatchIdle ==
    /\ containers = {}
    /\ required = {}
    /\ wpc = "idle"
    /\ expected = <<>>
    /\ watched = [c \in {} |-> 0]
    /\ replaced = <<>>
    /\ listened = <<>>
    /\ stopCalled = FALSE
    /\ consumerErr = NilErr
    /\ events = <<>>
    /\ wResult = NoResult

Init ==
    /\ project \in TraversalProjects
    /\ failing \in { F \in SUBSET project.services : Cardinality(F) <= MaxFailing }
    /\ InitState
    /\ WatchIdle

\* NewGraph on its own: the visitor is not called
InitGraph ==
    /\ project \in Projects
    /\ failing = {}
    /\ InitState
    /\ WatchIdle

(***************************************************************************)
(* NewGraph, called by InDependencyOrder and InReverseDependencyOrder:     *)
(* both loops, up to the call of HasCycles.                                *)
(***************************************************************************)
NewGraph(initialStatus) ==
    /\ graph' = AddEdges(AddVertices(EmptyGraph, project.services, initialStatus),
                         DepPairs(project))
    /\ ngTodo' = DOMAIN graph'
    /\ discovered' = <<>>
    /\ finished' = <<>>
    /\ stack' = <<>>

InDependencyOrder ==
    /\ pc = "start"
    /\ NewGraph(ServiceStopped)
    /\ \E k \in 0..MaxLimit : t' = [upDirectionTraversal EXCEPT !.maxConcurrency = k]
    /\ pc' = "HasCycles"
    /\ UNCHANGED watchVars
    /\ UNCHANGED <<project, failing, result>>
    /\ UNCHANGED travVars

InReverseDependencyOrder ==
    /\ pc = "start"
    /\ NewGraph(ServiceStarted)
    /\ t' = downDirectionTraversal
    /\ pc' = "HasCycles"
    /\ UNCHANGED watchVars
    /\ UNCHANGED <<project, failing, result>>
    /\ UNCHANGED travVars

(***************************************************************************)
(* HasCycles and Graph.visit.  A frame of stack is one call of Graph.visit *)
(* with its parameters and the children its loop has not reached yet.      *)
(***************************************************************************)
Frame(key, path, disc, fin) ==
    [key |-> key, path |-> path, discovered |-> Append(disc, key),
     finished |-> fin, children |-> graph[key].Children]

\* the outer loop of HasCycles takes the next vertex, in any order
HasCyclesNext ==
    /\ pc = "HasCycles"
    /\ stack = <<>>
    /\ \E vertex \in ngTodo :
         /\ ngTodo' = ngTodo \ {vertex}
         /\ IF ~StringContains(discovered, vertex) /\ ~StringContains(finished, vertex)
              THEN stack' = <<Frame(vertex, <<vertex>>, discovered, finished)>>
              ELSE stack' = stack
    /\ UNCHANGED watchVars
    /\ UNCHANGED <<project, failing, pc, t, graph, discovered, finished, result>>
    /\ UNCHANGED travVars

\* the loop of Graph.visit meets a child that is in discovered: the error
\* goes up through every caller, and NewGraph returns (nil, err)
VisitCycle ==
    /\ pc = "HasCycles"
    /\ stack # <<>>
    /\ LET f == stack[Len(stack)]
       IN \E v \in f.children :
            /\ StringContains(f.discovered, v)
            /\ result' = CycleFound(Append(f.path, v))
    /\ stack' = <<>>
    /\ pc' = "done"
    /\ UNCHANGED watchVars
    /\ UNCHANGED <<project, failing, t, graph, ngTodo, discovered, finished>>
    /\ UNCHANGED travVars

\* the loop of Graph.visit takes a child that is not in discovered
VisitChild ==
    /\ pc = "HasCycles"
    /\ stack # <<>>
    /\ LET n == Len(stack)
           f == stack[n]
       IN \E v \in f.children :
            /\ ~StringContains(f.discovered, v)
            /\ LET rest == [stack EXCEPT ![n].children = @ \ {v}]
               IN IF ~StringContains(f.finished, v)
                    THEN stack' = Append(rest, Frame(v, Append(f.path, v), f.discovered, f.finished))
                    ELSE stack' = rest
    /\ UNCHANGED watchVars
    /\ UNCHANGED <<project, failing, pc, t, graph, ngTodo, discovered, finished, result>>
    /\ UNCHANGED travVars

\* Graph.visit returns (discovered, finished, nil); only HasCycles keeps
\* the returned slices, a calling Graph.visit discards them
VisitReturn ==
    /\ pc = "HasCycles"
    /\ stack # <<>>
    /\ LET n == Len(stack)
           f == stack[n]
       IN /\ f.children = {}
          /\ stack' = SubSeq(stack, 1, n - 1)
          /\ IF n = 1
               THEN /\ discovered' = remove(f.discovered, f.key)
                    /\ finished' = Append(f.finished, f.key)
               ELSE UNCHANGED <<discovered, finished>>
    /\ UNCHANGED watchVars
    /\ UNCHANGED <<project, failing, pc, t, graph, ngTodo, result>>
    /\ UNCHANGED travVars

\* HasCycles returns (false, nil), its slices are dropped, and NewGraph
\* returns the graph
HasCyclesReturn ==
    /\ pc = "HasCycles"
    /\ stack = <<>>
    /\ ngTodo = {}
    /\ discovered' = <<>>
    /\ finished' = <<>>
    /\ pc' = "visit"
    /\ UNCHANGED watchVars
    /\ UNCHANGED <<project, failing, t, result, graph, ngTodo, stack>>
    /\ UNCHANGED travVars


(***************************************************************************)
(* graphTraversal.visit, up to eg.Wait.                                    *)
(***************************************************************************)
\* an empty graph: return nil
VisitEmpty ==
    /\ pc = "visit"
    /\ InitialExpect(graph) = 0
    /\ result' = NilErr
    /\ pc' = "done"
    /\ UNCHANGED watchVars
    /\ UNCHANGED <<project, failing, t>>
    /\ UNCHANGED graphVars
    /\ UNCHANGED travVars

\* errgroup.WithContext, SetLimit, make(chan), eg.Go of the coordinator,
\* and the extremity nodes handed to the seeding call of run
VisitStart ==
    /\ pc = "visit"
    /\ InitialExpect(graph) # 0
    /\ expect' = InitialExpect(graph)
    /\ active' = 1
    /\ coord' = "recv"
    /\ runs' = [runs EXCEPT !["main"] =
                  [pc |-> "loop", nodes |-> extremityNodesFn(t, graph), node |-> ""]]
    /\ pc' = "run"
    /\ UNCHANGED watchVars
    /\ UNCHANGED <<project, failing, t, result>>
    /\ UNCHANGED graphVars
    /\ UNCHANGED <<seen, nodeChClosed, worker, egErr, ctxCancelled, order>>

(***************************************************************************)
(* graphTraversal.run, by r = "main" (the seeding call of visit) or        *)
(* r = "coord" (the coordinator goroutine).                                *)
(***************************************************************************)
\* the loop takes the next node, in any order, and filters it by status
RunNext(r) ==
    /\ runs[r].pc = "loop"
    /\ \E node \in runs[r].nodes :
         runs' = [runs EXCEPT ![r] =
            IF filterAdjacentByStatusFn(t, graph, node, t.adjacentServiceStatusToSkip) # {}
              THEN [pc |-> "loop", nodes |-> runs[r].nodes \ {node}, node |-> ""]
              ELSE [pc |-> "consume", nodes |-> runs[r].nodes \ {node}, node |-> node]]
    /\ UNCHANGED watchVars
    /\ UNCHANGED <<project, failing, pc, t, result>>
    /\ UNCHANGED graphVars
    /\ UNCHANGED <<seen, expect, nodeChClosed, coord, worker, active, egErr,
                   ctxCancelled, order>>

\* t.consume(node.Key)
RunConsume(r) ==
    /\ runs[r].pc = "consume"
    /\ IF consume(seen, runs[r].node)
         THEN /\ seen' = seen \cup {runs[r].node}
              /\ runs' = [runs EXCEPT ![r].pc = "go"]
         ELSE /\ seen' = seen
              /\ runs' = [runs EXCEPT ![r].pc = "loop", ![r].node = ""]
    /\ UNCHANGED watchVars
    /\ UNCHANGED <<project, failing, pc, t, result>>
    /\ UNCHANGED graphVars
    /\ UNCHANGED <<expect, nodeChClosed, coord, worker, active, egErr,
                   ctxCancelled, order>>

\* eg.Go: waits for a free slot when a limit is set, then starts the worker
RunGo(r) ==
    /\ runs[r].pc = "go"
    /\ t.maxConcurrency > 0 => active < SetLimit(t)
    /\ active' = active + 1
    /\ worker' = [worker EXCEPT ![runs[r].node] = Append(@, "spawned")]
    /\ runs' = [runs EXCEPT ![r].pc = "loop", ![r].node = ""]
    /\ UNCHANGED watchVars
    /\ UNCHANGED <<project, failing, pc, t, result>>
    /\ UNCHANGED graphVars
    /\ UNCHANGED <<seen, expect, nodeChClosed, coord, egErr, ctxCancelled, order>>

\* the seeding call of run returns: visit goes on to eg.Wait
SeedReturn ==
    /\ pc = "run"
    /\ runs["main"].pc = "loop"
    /\ runs["main"].nodes = {}
    /\ runs' = [runs EXCEPT !["main"] = IdleRun]
    /\ pc' = "Wait"
    /\ UNCHANGED watchVars
    /\ UNCHANGED <<project, failing, t, result>>
    /\ UNCHANGED graphVars
    /\ UNCHANGED <<seen, expect, nodeChClosed, coord, worker, active, egErr,
                   ctxCancelled, order>>

\* the coordinator's call of run returns: back to the receive on nodeCh
CoordRunReturn ==
    /\ coord = "run"
    /\ runs["coord"].pc = "loop"
    /\ runs["coord"].nodes = {}
    /\ runs' = [runs EXCEPT !["coord"] = IdleRun]
    /\ coord' = "recv"
    /\ UNCHANGED watchVars
    /\ UNCHANGED <<project, failing, pc, t, result>>
    /\ UNCHANGED graphVars
    /\ UNCHANGED <<seen, expect, nodeChClosed, worker, active, egErr,
                   ctxCancelled, order>>

(***************************************************************************)
(* The worker goroutine started by run; i is its place among the           *)
(* goroutines started for node.                                            *)
(***************************************************************************)
\* t.visitorFn(ctx, node.Service) is called
VisitorCall(node, i) ==
    /\ i \in 1..Len(worker[node])
    /\ worker[node][i] = "spawned"
    /\ worker' = [worker EXCEPT ![node][i] = "visitor"]
    /\ order' = Append(order, node)
    /\ UNCHANGED watchVars
    /\ UNCHANGED <<project, failing, pc, t, result>>
    /\ UNCHANGED graphVars
    /\ UNCHANGED <<seen, expect, nodeChClosed, coord, runs, active, egErr, ctxCancelled>>

\* the visitor returns err, and
\* if err == nil { graph.UpdateStatus(node.Key, t.targetServiceStatus) }
VisitorReturn(node, i) ==
    /\ i \in 1..Len(worker[node])
    /\ worker[node][i] = "visitor"
    /\ worker' = [worker EXCEPT ![node][i] = "send"]
    /\ IF visitorFn(graph[node].Service) = NilErr
         THEN graph' = UpdateStatus(graph, node, t.targetServiceStatus)
         ELSE graph' = graph
    /\ UNCHANGED watchVars
    /\ UNCHANGED <<project, failing, pc, t, result>>
    /\ UNCHANGED <<ngTodo, discovered, finished, stack>>
    /\ UNCHANGED <<seen, expect, nodeChClosed, coord, runs, active, egErr,
                   ctxCancelled, order>>

\* nodeCh <- node meets the coordinator's receive: expect--, and either
\* close(nodeCh) and return, or run on the adjacent nodes
Receive(node, i) ==
    /\ i \in 1..Len(worker[node])
    /\ worker[node][i] = "send"
    /\ coord = "recv"
    /\ ~nodeChClosed
    /\ worker' = [worker EXCEPT ![node][i] = "exit"]
    /\ expect' = expect - 1
    /\ IF expect' = 0
         THEN /\ nodeChClosed' = TRUE
              /\ coord' = "return"
              /\ runs' = runs
         ELSE /\ nodeChClosed' = nodeChClosed
              /\ coord' = "run"
              /\ runs' = [runs EXCEPT !["coord"] =
                            [pc |-> "loop", nodes |-> adjacentNodesFn(t, graph, node),
                             node |-> ""]]
    /\ UNCHANGED watchVars
    /\ UNCHANGED <<project, failing, pc, t, result>>
    /\ UNCHANGED graphVars
    /\ UNCHANGED <<seen, active, egErr, ctxCancelled, order>>

\* errgroup: a function that returned a non-nil error first sets the
\* group's error and cancels the context
Done(err) ==
    /\ active' = active - 1
    /\ IF err # NilErr /\ egErr = NilErr
         THEN /\ egErr' = err
              /\ ctxCancelled' = TRUE
         ELSE UNCHANGED <<egErr, ctxCancelled>>

\* the worker returns err
WorkerReturn(node, i) ==
    /\ i \in 1..Len(worker[node])
    /\ worker[node][i] = "exit"
    /\ worker' = [worker EXCEPT ![node][i] = "done"]
    /\ Done(visitorFn(graph[node].Service))
    /\ UNCHANGED watchVars
    /\ UNCHANGED <<project, failing, pc, t, result>>
    /\ UNCHANGED graphVars
    /\ UNCHANGED <<seen, expect, nodeChClosed, coord, runs, order>>

\* the coordinator returns nil
CoordReturn ==
    /\ coord = "return"
    /\ coord' = "done"
    /\ Done(NilErr)
    /\ UNCHANGED watchVars
    /\ UNCHANGED <<project, failing, pc, t, result>>
    /\ UNCHANGED graphVars
    /\ UNCHANGED <<seen, expect, nodeChClosed, runs, worker, order>>

\* eg.Wait returns once every goroutine of the group has returned, and
\* visit returns the group's error
Wait ==
    /\ pc = "Wait"
    /\ active = 0
    /\ result' = egErr
    /\ pc' = "done"
    /\ UNCHANGED watchVars
    /\ UNCHANGED <<project, failing, t>>
    /\ UNCHANGED graphVars
    /\ UNCHANGED travVars

(***************************************************************************)
(* The goroutines and the specifications.                                  *)
(***************************************************************************)
NextGraph ==
    \/ InDependencyOrder
    \/ InReverseDependencyOrder
    \/ HasCyclesNext
    \/ VisitCycle
    \/ VisitChild
    \/ VisitReturn
    \/ HasCyclesReturn

Caller ==
    \/ NextGraph
    \/ VisitEmpty
    \/ VisitStart
    \/ (pc = "run" /\ RunNext("main"))
    \/ (pc = "run" /\ RunConsume("main"))
    \/ (pc = "run" /\ RunGo("main"))
    \/ SeedReturn
    \/ Wait

Coordinator ==
    \/ (coord = "run" /\ RunNext("coord"))
    \/ (coord = "run" /\ RunConsume("coord"))
    \/ (coord = "run" /\ RunGo("coord"))
    \/ CoordRunReturn
    \/ CoordReturn

Worker(node) ==
    \E i \in 1..Len(worker[node]) :
        \/ VisitorCall(node, i)
        \/ VisitorReturn(node, i)
        \/ Receive(node, i)
        \/ WorkerReturn(node, i)

Next ==
    \/ Caller
    \/ Coordinator
    \/ \E node \in AllNames : Worker(node)

Spec == Init /\ [][Next]_vars

\* NewGraph on every project of Projects
GraphSpec == InitGraph /\ [][NextGraph]_vars

\* every goroutine that can take a step eventually takes one
FairSpec ==
    /\ Spec
    /\ WF_vars(Caller)
    /\ WF_vars(Coordinator)
    /\ \A node \in AllNames : WF_vars(Worker(node))


(***************************************************************************)
(* watchContainers (start.go), called by composeService.start with its     *)
(* two callbacks: onStart attaches the container, onRecreate hands an      *)
(* Attach event to the listener.                                           *)
(***************************************************************************)
ContainerIDs == {"c1", "c2"}

\* the services handed to watchContainers (options.AttachTo)
Services == {"a", "b"}

\* c.Labels[api.ServiceLabel]
ServiceLabel(id) == IF id = "c1" THEN "a" ELSE "b"

\* a container without api.ContainerReplaceLabel
NoLabel == "none"

InspectErr == [kind |-> "inspect", path |-> <<>>]
AttachErr == [kind |-> "attach", path |-> <<>>]

\* utils.Contains
Contains(origin, element) == \E i \in 1..Len(origin) : origin[i] = element

\* utils.Remove: origin without the element
Remove(origin, element) == SelectSeq(origin, LAMBDA e : e # element)

\* delete(watched, id)
Delete(m, id) == [c \in (DOMAIN m) \ {id} |-> m[c]]

\* watched[id] = n
Put(m, id, n) == [c \in (DOMAIN m) \cup {id} |-> IF c = id THEN n ELSE m[c]]

\* api.ContainerEvent as the listener receives it
ContainerEvent(type, id, restarting) == [type |-> type, id |-> id, restarting |-> restarting]

\* a call of the onStart callback
OnStartCall(id) == [type |-> "onStart", id |-> id, restarting |-> FALSE]

\* an engine event together with what ContainerInspect answers for it and
\* what onStart returns
Event(id, status, inspect, restarting, replace, onStartErr) ==
    [container |-> id, status |-> status, inspect |-> inspect,
     restarting |-> restarting, replace |-> replace, onStartErr |-> onStartErr]

\* the events the engine may send, in any order
EngineEvents ==
    UNION { {Event(id, "stop", "ok", FALSE, NoLabel, FALSE)}
            \cup { Event(id, "die", "ok", r, NoLabel, FALSE) : r \in BOOLEAN }
            \cup { Event(id, "start", "ok", FALSE, NoLabel, e) : e \in BOOLEAN }
            \cup { Event(id, "create", "ok", FALSE, old, FALSE) : old \in ContainerIDs \ {id} }
            \cup { Event(id, "kill", i, FALSE, NoLabel, FALSE) : i \in {"ok", "notfound", "error"} }
            : id \in ContainerIDs }

\* the containers in the order of the slice
ContainerList == <<"c1", "c2">>

\* if len(required) == 0 { required = services }
Required(req) == IF Cardinality(req) = 0 THEN Services ELSE req

\* the seeding loop: expected
SeedExpected(cs, req) ==
    SelectSeq(ContainerList, LAMBDA c : c \in cs /\ ServiceLabel(c) \in Required(req))

\* the seeding loop: watched
SeedWatched(cs) == [c \in cs |-> 0]

\* the consumer's state: the captured variables, what the listener and the
\* callbacks received, whether stop() was called and the returned error
ConsumerState ==
    [expected |-> expected, watched |-> watched, replaced |-> replaced,
     listened |-> listened, stop |-> stopCalled, err |-> consumerErr]

\* stop-case eType that forgets replaced
StopTypeAlwaysStopped(st, id) == "Stopped"

\* case "stop": the type of the event
StopType(st, id) == IF Contains(st.replaced, id) THEN "Recreated" ELSE "Stopped"

\* not-found that keeps the container expected
NotFoundKeepsExpected(st, id) == [st EXCEPT !.watched = Delete(@, id)]

\* inspection failed with not-found
NotFound(st, id) ==
    [st EXCEPT !.watched = Delete(@, id), !.expected = Remove(@, id)]

CaseStop(st, id) ==
    [st EXCEPT
        !.listened = IF id \in DOMAIN st.watched
                       THEN Append(@, ContainerEvent(StopType(st, id), id, FALSE))
                       ELSE @,
        !.watched = Delete(@, id),
        !.expected = Remove(@, id)]

CaseDie(st, id, willRestart) ==
    LET restarted == IF id \in DOMAIN st.watched THEN st.watched[id] ELSE 0
        counted == Put(st.watched, id, restarted + 1)
        eType == IF Contains(st.replaced, id) THEN "Recreated" ELSE "Exit"
    IN [st EXCEPT
           !.listened = Append(@, ContainerEvent(eType, id, willRestart)),
           !.watched = IF ~willRestart THEN Delete(counted, id) ELSE counted,
           !.expected = IF ~willRestart THEN Remove(@, id) ELSE @]

\* mustAttach that takes every known container for a restarted one
MustAttachAlways(ok, count) == ok

\* mustAttach := ok && count > 0
MustAttach(ok, count) == ok /\ count > 0

\* case "start" that forgets watched[container.ID] = 0 for a new container
CaseStartNotWatched(st, id, onStartErr) ==
    LET ok == id \in DOMAIN st.watched
        count == IF ok THEN st.watched[id] ELSE 0
        mustAttach == MustAttach(ok, count) \/ ~ok
        added == IF ~ok THEN [st EXCEPT !.expected = Append(@, id)] ELSE st
    IN IF mustAttach
         THEN [added EXCEPT !.listened = Append(@, OnStartCall(id)),
                            !.err = IF onStartErr THEN AttachErr ELSE NilErr]
         ELSE added

\* case "start" of the consumer
CaseStart(st, id, onStartErr) ==
    LET ok == id \in DOMAIN st.watched
        count == IF ok THEN st.watched[id] ELSE 0
        mustAttach == MustAttach(ok, count) \/ ~ok
        added == IF ~ok
                   THEN [st EXCEPT !.watched = Put(@, id, 0), !.expected = Append(@, id)]
                   ELSE st
    IN IF mustAttach
         THEN [added EXCEPT !.listened = Append(@, OnStartCall(id)),
                            !.err = IF onStartErr THEN AttachErr ELSE NilErr]
         ELSE added

\* case "create" that does not expect the new container
CaseCreateNotExpected(st, id, replace) ==
    IF replace = NoLabel THEN st
    ELSE [st EXCEPT
            !.replaced = Append(@, replace),
            !.listened = Append(@, ContainerEvent("Attach", id, FALSE)),
            !.watched = Put(@, id, 1)]

CaseCreate(st, id, replace) ==
    IF replace = NoLabel THEN st
    ELSE LET once == IF StringContains(st.expected, replace)
                       THEN Append(st.expected, id) ELSE st.expected
             twice == IF Contains(once, replace) THEN Append(once, id) ELSE once
         IN [st EXCEPT
                !.replaced = Append(@, replace),
                !.listened = Append(@, ContainerEvent("Attach", id, FALSE)),
                !.watched = Put(@, id, 1),
                !.expected = twice]

\* the switch on event.Status
Switch(st, event) ==
    CASE event.status = "stop"   -> CaseStop(st, event.container)
      [] event.status = "die"    -> CaseDie(st, event.container, event.restarting)
      [] event.status = "start"  -> CaseStart(st, event.container, event.onStartErr)
      [] event.status = "create" -> CaseCreate(st, event.container, event.replace)
      [] OTHER                   -> st

\* the consumer handed to s.Events
Consumer(st, event) ==
    IF event.inspect = "notfound" THEN NotFound(st, event.container)
    ELSE IF event.inspect = "error" THEN [st EXCEPT !.err = InspectErr]
    ELSE LET after == Switch(st, event)
         IN IF after.err # NilErr THEN after
            ELSE IF Len(after.expected) = 0 THEN [after EXCEPT !.stop = TRUE]
            ELSE after

\* if len(containers) == 0 { return nil }
WatchNoContainers ==
    /\ wpc = "start"
    /\ Cardinality(containers) = 0
    /\ wResult' = NilErr
    /\ wpc' = "returned"
    /\ UNCHANGED <<containers, required, expected, watched, replaced, listened,
                   stopCalled, consumerErr, events>>
    /\ UNCHANGED <<project, failing, pc, t, result>>
    /\ UNCHANGED graphVars
    /\ UNCHANGED travVars

\* the seeding of expected and watched, then s.Events is called
WatchSeed ==
    /\ wpc = "start"
    /\ Cardinality(containers) # 0
    /\ expected' = SeedExpected(containers, required)
    /\ watched' = SeedWatched(containers)
    /\ replaced' = <<>>
    /\ wpc' = "events"
    /\ UNCHANGED <<containers, required, listened, stopCalled, consumerErr, events, wResult>>
    /\ UNCHANGED <<project, failing, pc, t, result>>
    /\ UNCHANGED graphVars
    /\ UNCHANGED travVars

\* Events goes on as long as the consumer returned no error and the context
\* is not cancelled
Subscribed == ~stopCalled /\ consumerErr = NilErr

\* s.Events hands the next event to the consumer
Consume ==
    /\ wpc = "events"
    /\ Subscribed
    /\ Len(events) < MaxEvents
    /\ \E event \in EngineEvents :
         LET after == Consumer(ConsumerState, event)
         IN /\ expected' = after.expected
            /\ watched' = after.watched
            /\ replaced' = after.replaced
            /\ listened' = after.listened
            /\ stopCalled' = after.stop
            /\ consumerErr' = after.err
            /\ events' = Append(events, event)
    /\ UNCHANGED <<containers, required, wpc, wResult>>
    /\ UNCHANGED <<project, failing, pc, t, result>>
    /\ UNCHANGED graphVars
    /\ UNCHANGED travVars

\* s.Events returns, and watchContainers returns nil when the context was
\* cancelled and the consumer's error otherwise
EventsReturn ==
    /\ wpc = "events"
    /\ ~Subscribed
    /\ wResult' = IF stopCalled THEN NilErr ELSE consumerErr
    /\ wpc' = "returned"
    /\ UNCHANGED <<containers, required, expected, watched, replaced, listened,
                   stopCalled, consumerErr, events>>
    /\ UNCHANGED <<project, failing, pc, t, result>>
    /\ UNCHANGED graphVars
    /\ UNCHANGED travVars

\* watchContainers is called
InitWatch ==
    /\ project = Project({}, [s \in {} |-> {}])
    /\ failing = {}
    /\ InitState
    /\ containers \in SUBSET ContainerIDs
    /\ required \in SUBSET Services
    /\ wpc = "start"
    /\ expected = <<>>
    /\ watched = [c \in {} |-> 0]
    /\ replaced = <<>>
    /\ listened = <<>>
    /\ stopCalled = FALSE
    /\ consumerErr = NilErr
    /\ events = <<>>
    /\ wResult = NoResult

NextWatch ==
    \/ WatchNoContainers
    \/ WatchSeed
    \/ Consume
    \/ EventsReturn

WatchSpec == InitWatch /\ [][NextWatch]_vars

(***************************************************************************)
(* Definitions used by the properties.                                     *)
(***************************************************************************)
\* the number of times the visitor was called for v
Calls(v) == Cardinality({ i \in 1..Len(order) : order[i] = v })

\* the visitor calls that have started and not yet returned
InFlight ==
    UNION { { <<v, i>> : i \in { j \in 1..Len(worker[v]) : worker[v][j] = "visitor" } }
            : v \in AllNames }

\* the visitor of v has returned
Returned(v) == \E i \in 1..Len(worker[v]) : worker[v][i] \in {"send", "exit", "done"}

\* NewGraph has returned the graph
Built == pc \in {"visit", "run", "Wait"} \/ (pc = "done" /\ result.kind # "cycle found")

\* the call has returned nil
ReturnedNil == pc = "done" /\ result = NilErr

\* the vertices reached from the set S by following the traversal's
\* direction (parents when going up, children when going down)
RECURSIVE Downstream(_, _, _)
Downstream(tr, g, S) ==
    LET more == S \cup UNION { adjacentNodesFn(tr, g, k) : k \in S }
    IN IF more = S THEN S ELSE Downstream(tr, g, more)

\* the vertices gated on v, directly or transitively
GatedOn(tr, g, v) == Downstream(tr, g, adjacentNodesFn(tr, g, v))

\* the services a service depends on through one or more declarations
RECURSIVE DependsOnPlus(_, _)
DependsOnPlus(p, S) ==
    LET more == S \cup UNION { p.dependsOn[k] \cap p.services : k \in S \cap p.services }
    IN IF more = S THEN S ELSE DependsOnPlus(p, more)

HasDirectedCycle(p) ==
    \E s \in p.services : s \in DependsOnPlus(p, p.dependsOn[s] \cap p.services)

AllKnown(p) == \A s \in p.services : p.dependsOn[s] \subseteq p.services

IsPrefix(a, b) == Len(a) <= Len(b) /\ SubSeq(b, 1, Len(a)) = a

\* A -> B -> C
Chain ==
    Project(Names, [s \in Names |-> CASE s = "A" -> {"B"} [] s = "B" -> {"C"} [] OTHER -> {}])

\* {A -> C, B -> C}
Fork ==
    Project(Names, [s \in Names |-> CASE s = "A" -> {"C"} [] s = "B" -> {"C"} [] OTHER -> {}])

IsUp == t.extremityNodesFn = "leaves"

(***************************************************************************)
(* C1: in every traversal the visitor is called at most once per vertex,   *)
(* and when the traversal has returned nil it was called exactly once for  *)
(* every vertex of the graph (so in {A -> C, B -> C}, A and B are each     *)
(* visited exactly once after C completed).                                *)
(***************************************************************************)
C1_VisitedOnce ==
    /\ \A v \in AllNames : Calls(v) <= 1
    /\ \A v \in AllNames : Len(worker[v]) <= 1
    /\ ReturnedNil => \A v \in AllNames : Calls(v) = (IF v \in DOMAIN graph THEN 1 ELSE 0)

\* the fork was traversed upwards to the end: A and B were both offered
\* when C completed, and each was visited once
C1_Witness ==
    /\ project = Fork
    /\ IsUp
    /\ ReturnedNil
    /\ order[1] = "C"
    /\ Calls("A") = 1
    /\ Calls("B") = 1

(***************************************************************************)
(* C2: once the visitor of v has been called, no gating neighbour of v is  *)
(* in the skip status (children Started going up, parents Stopped going    *)
(* down), and each such neighbour's visitor has returned; the chain        *)
(* A -> B -> C is visited in the order C, B, A going up and A, B, C going  *)
(* down.                                                                   *)
(***************************************************************************)
C2_GatedOrder ==
    /\ \A v \in AllNames :
         Calls(v) > 0 =>
           /\ filterAdjacentByStatusFn(t, graph, v, t.adjacentServiceStatusToSkip) = {}
           /\ \A u \in (IF IsUp THEN GetChildren(graph, v) ELSE GetParents(graph, v)) :
                /\ Returned(u)
                /\ graph[u].Status = t.targetServiceStatus
    /\ project = Chain =>
         IsPrefix(order, IF IsUp THEN <<"C", "B", "A">> ELSE <<"A", "B", "C">>)

\* the chain was traversed upwards to the end
C2_Witness ==
    /\ project = Chain
    /\ IsUp
    /\ ReturnedNil
    /\ order = <<"C", "B", "A">>

(***************************************************************************)
(* C3: once a visitor has returned an error, the traversal eventually      *)
(* returns, and what it returns is the error of a visitor.                 *)
(***************************************************************************)
C3_ErrorReturned ==
    [](((\E v \in failing : Returned(v)))
         => <>(pc = "done" /\ result \in { VisitorErr(v) : v \in failing }))

(***************************************************************************)
(* C4: with maxConcurrency > 0 and every visitor returning nil, an         *)
(* up-traversal eventually has called every visitor and returns nil.       *)
(***************************************************************************)
C4_LimitedTerminates ==
    []((pc = "visit" /\ IsUp /\ t.maxConcurrency > 0 /\ failing = {})
         => <>(ReturnedNil /\ \A v \in DOMAIN graph : Calls(v) = 1))

(***************************************************************************)
(* C5: with maxConcurrency = 0 and every visitor returning nil, the        *)
(* traversal eventually returns nil with the countdown at zero, the        *)
(* completion channel closed and every goroutine returned; for an empty    *)
(* graph it returns nil without starting a goroutine or calling a visitor. *)
(***************************************************************************)
C5_UnlimitedTerminates ==
    /\ []((pc = "visit" /\ t.maxConcurrency = 0 /\ failing = {})
            => <>(/\ ReturnedNil
                  /\ active = 0
                  /\ \A v \in DOMAIN graph : worker[v] = <<"done">>
                  /\ DOMAIN graph # {} => (expect = 0 /\ nodeChClosed /\ coord = "done")))
    /\ []((Built /\ DOMAIN graph = {})
            => (/\ order = <<>>
                /\ coord = "none"
                /\ pc \in {"visit", "done"}
                /\ pc = "done" => result = NilErr))

\* the diamond was traversed without a limit and the call returned nil
C5_Witness ==
    /\ project = Diamond
    /\ t.maxConcurrency = 0
    /\ ReturnedNil
    /\ nodeChClosed
    /\ expect = 0

(***************************************************************************)
(* C6: with maxConcurrency = k > 0, at most k visitor calls are in flight. *)
(***************************************************************************)
C6_AtMostK ==
    (coord # "none" /\ t.maxConcurrency > 0) => Cardinality(InFlight) <= t.maxConcurrency

\* k visitors are in flight and a call of run waits in eg.Go to start one more
C6_Witness ==
    /\ t.maxConcurrency > 0
    /\ Cardinality(InFlight) = t.maxConcurrency
    /\ \E r \in {"main", "coord"} : runs[r].pc = "go"

(***************************************************************************)
(* C7: when an up-traversal has returned nil every vertex is Started, and  *)
(* when a down-traversal has returned nil every vertex is Stopped; a       *)
(* vertex's status changes only from the initial status to the target      *)
(* status (hence at most once), and only in the step in which its own      *)
(* visitor returns nil.                                                    *)
(***************************************************************************)
C7_Status ==
    /\ [](ReturnedNil =>
            \A v \in DOMAIN graph :
                graph[v].Status = (IF IsUp THEN ServiceStarted ELSE ServiceStopped))
    /\ [][pc # "start" =>
            \A v \in DOMAIN graph :
                graph'[v].Status # graph[v].Status =>
                    /\ graph[v].Status = (IF IsUp THEN ServiceStopped ELSE ServiceStarted)
                    /\ graph'[v].Status = (IF IsUp THEN ServiceStarted ELSE ServiceStopped)
                    /\ v \notin failing
                    /\ ~Returned(v)
                    /\ Returned(v)']_vars

\* the diamond was stopped in reverse dependency order
C7_Witness ==
    /\ project = Diamond
    /\ ~IsUp
    /\ ReturnedNil
    /\ \A v \in DiamondNames : graph[v].Status = ServiceStopped

(***************************************************************************)
(* C8: after the visitor of v returned an error, the status of v is still  *)
(* the initial one and the visitor of no vertex gated on v, directly or    *)
(* transitively, has been called (in the diamond with C failing, A is      *)
(* never visited).                                                         *)
(***************************************************************************)
C8_FailureBlocks ==
    \A v \in failing :
        Returned(v) =>
            /\ graph[v].Status = t.adjacentServiceStatusToSkip
            /\ \A u \in GatedOn(t, graph, v) : Calls(u) = 0

\* the diamond, going up: C failed, B was visited, A was not
C8_Witness ==
    /\ project = Diamond
    /\ IsUp
    /\ failing = {"C"}
    /\ worker["C"] = <<"done">>
    /\ Calls("B") = 1
    /\ Calls("A") = 0

(***************************************************************************)
(* C9: a project in which a service depends on a name that is not a        *)
(* service of the project is rejected by NewGraph: no graph is returned    *)
(* and the call returns the error.                                         *)
(***************************************************************************)
C9_UnknownRejected ==
    ~AllKnown(project) =>
        /\ pc \notin {"visit", "run", "Wait"}
        /\ pc = "done" => result.kind \in {"could not find", "cycle found"}

(***************************************************************************)
(* C10: for a project whose dependencies are all known, NewGraph returns a *)
(* cycle error exactly when the declarations contain a directed cycle,     *)
(* whatever the iteration order; the graph it returns has the declared     *)
(* dependencies as children, and A is a parent of B exactly when B is a    *)
(* child of A.                                                             *)
(***************************************************************************)
C10_CycleIff ==
    AllKnown(project) =>
        /\ pc = "done" => (result.kind = "cycle found" /\ HasDirectedCycle(project))
        /\ pc = "visit" =>
             /\ ~HasDirectedCycle(project)
             /\ DOMAIN graph = project.services
             /\ \A a \in DOMAIN graph : graph[a].Children = project.dependsOn[a]
             /\ \A a, b \in DOMAIN graph :
                    a \in graph[b].Parents <=> b \in graph[a].Children

\* a cycle through two or more services was reported
C10_Witness ==
    /\ AllKnown(project)
    /\ pc = "done"
    /\ result.kind = "cycle found"
    /\ Len(result.path) >= 3

(***************************************************************************)
(* C11: the path of a cycle error is a cycle of the declared dependencies: *)
(* every consecutive pair is a declared dependency and the path starts and *)
(* ends at the same service.                                               *)
(***************************************************************************)
C11_PathIsCycle ==
    (pc = "done" /\ result.kind = "cycle found") =>
        LET path == result.path
        IN /\ Len(path) >= 2
           /\ \A i \in 1..(Len(path) - 1) :
                /\ path[i] \in project.services
                /\ path[i + 1] \in project.dependsOn[path[i]]
           /\ path[1] = path[Len(path)]

(***************************************************************************)
(* C19: a vertex sends at most one completion notification, and a worker   *)
(* that went past its send has sent exactly one, whether its visitor       *)
(* succeeded or failed; the countdown is the vertex count minus the        *)
(* notifications received and is never negative; once the completion       *)
(* channel is closed every notification has been received and no worker is *)
(* left that has still to send.                                            *)
(***************************************************************************)
\* the notifications the coordinator has received: the workers past their send
Notified ==
    UNION { { <<v, i>> : i \in { j \in 1..Len(worker[v]) : worker[v][j] \in {"exit", "done"} } }
            : v \in AllNames }

\* the workers that have still to send on nodeCh
ToSend ==
    UNION { { <<v, i>> : i \in { j \in 1..Len(worker[v]) :
                                    worker[v][j] \in {"spawned", "visitor", "send"} } }
            : v \in AllNames }

Handles(event) == events' = Append(events, event)

\* the events whose container was inspected
Inspected == { e \in EngineEvents : e.inspect = "ok" }

\* the listener and the callbacks receive nothing in this step
Silent == listened' = listened

\* the listener or a callback receives exactly notification in this step
Receives(notification) == listened' = Append(listened, notification)

IsWatched(id) == id \in DOMAIN watched

IsExpected(id) == \E i \in 1..Len(expected) : expected[i] = id

IsReplaced(id) == \E i \in 1..Len(replaced) : replaced[i] = id

\* Stopped, Recreated, or Exit with restarting = false
Terminal(e) ==
    \/ e.type \in {"Stopped", "Recreated"}
    \/ e.type = "Exit" /\ ~e.restarting

TerminalCount(id) ==
    Cardinality({ i \in 1..Len(listened) : listened[i].id = id /\ Terminal(listened[i]) })

InitiallyExpected == { c \in containers : ServiceLabel(c) \in Required(required) }

\* create(c2, replace-label = c1), stop(c1), start(c2)
RecreationEvents ==
    << Event("c2", "create", "ok", FALSE, "c1", FALSE),
       Event("c1", "stop", "ok", FALSE, NoLabel, FALSE),
       Event("c2", "start", "ok", FALSE, NoLabel, FALSE) >>

\* initial containers [c1(service = a)], required = [a], and the three events
Recreation ==
    /\ containers = {"c1"}
    /\ required = {"a"}
    /\ events = RecreationEvents

(***************************************************************************)
(* C12: whenever the handling of an event empties expected, stop() is      *)
(* called in that same handling, whichever path emptied it; and a watcher  *)
(* that returned after stop() returned nil.                                *)
(***************************************************************************)
C12_StopsWhenDrained ==
    /\ [][(Len(expected) > 0 /\ Len(expected') = 0) => stopCalled']_vars
    /\ []((wpc = "returned" /\ stopCalled) => wResult = NilErr)

(***************************************************************************)
(* C13: the listener receives at most one terminal event for an initially  *)
(* expected container, and the stop or die event that removes a container  *)
(* from expected hands the listener one terminal event for it.             *)
(***************************************************************************)
C13_OneTerminalEvent ==
    /\ [](\A id \in InitiallyExpected : TerminalCount(id) <= 1)
    /\ [][\A e \in Inspected :
            (/\ Handles(e)
             /\ e.status \in {"stop", "die"}
             /\ IsExpected(e.container)
             /\ ~IsExpected(e.container)')
            => TerminalCount(e.container)' = TerminalCount(e.container) + 1]_vars

(***************************************************************************)
(* C14 as stated: after the recreation scenario the listener has received  *)
(* Recreated(c1) followed by the attachment of c2, expected is empty and   *)
(* the subscription is cancelled.                                          *)
(***************************************************************************)
C14_RecreationDrains ==
    Recreation =>
        /\ \E i, j \in 1..Len(listened) :
              /\ i < j
              /\ listened[i] = ContainerEvent("Recreated", "c1", FALSE)
              /\ listened[j] = OnStartCall("c2")
        /\ Len(expected) = 0
        /\ stopCalled

(***************************************************************************)
(* C14 as amended: after the recreation scenario the listener has received *)
(* Attach(c2) from onRecreate, then Recreated(c1), then onStart was called *)
(* for c2; expected holds c2 and nothing else, and the watcher has neither *)
(* cancelled its subscription nor returned.                                *)
(***************************************************************************)
C14_RecreationKeepsWatching ==
    Recreation =>
        /\ listened = << ContainerEvent("Attach", "c2", FALSE),
                         ContainerEvent("Recreated", "c1", FALSE),
                         OnStartCall("c2") >>
        /\ IsExpected("c2")
        /\ ~IsExpected("c1")
        /\ ~stopCalled
        /\ wpc = "events"
        /\ wResult = NoResult

\* the three events of the scenario were handled
C14_Witness ==
    /\ Recreation
    /\ IsWatched("c2")

(***************************************************************************)
(* C15: a create event whose replace-label names an expected container     *)
(* makes the new container expected and watched with count 1 and records   *)
(* the old one in replaced, without cancelling the subscription; the stop  *)
(* of a watched replaced container and the die of a replaced container are *)
(* reported as Recreated; a container leaves expected only by its own      *)
(* stop, non-restarting die or not-found inspection; and stop() is only    *)
(* called, and nil only returned, when expected is empty.                  *)
(***************************************************************************)
C15_ReplacementExpected ==
    /\ [][\A e \in EngineEvents : Handles(e) =>
            /\ (e.inspect = "ok" /\ e.status = "create" /\ IsExpected(e.replace)) =>
                  /\ IsExpected(e.container)'
                  /\ IsWatched(e.container)'
                  /\ watched'[e.container] = 1
                  /\ IsReplaced(e.replace)'
                  /\ ~stopCalled'
            /\ (/\ e.inspect = "ok"
                /\ IsReplaced(e.container)
                /\ e.status = "die" \/ (e.status = "stop" /\ IsWatched(e.container))) =>
                  /\ Len(listened') = Len(listened) + 1
                  /\ listened'[Len(listened')].type = "Recreated"
                  /\ listened'[Len(listened')].id = e.container
            /\ \A c \in ContainerIDs :
                  (IsExpected(c) /\ ~IsExpected(c)') =>
                      /\ e.container = c
                      /\ \/ e.inspect = "notfound"
                         \/ e.inspect = "ok" /\ e.status = "stop"
                         \/ e.inspect = "ok" /\ e.status = "die" /\ ~e.restarting]_vars
    /\ [](stopCalled => Len(expected) = 0)
    /\ []((wpc = "returned" /\ wResult = NilErr) => Len(expected) = 0)

\* c1 was replaced by c2 and reported as Recreated without ending the
\* watch, which ended with the stop of c2
C15_Witness ==
    /\ containers = {"c1"}
    /\ required = {"a"}
    /\ Len(events) = 3
    /\ events[1] = Event("c2", "create", "ok", FALSE, "c1", FALSE)
    /\ events[2] = Event("c1", "stop", "ok", FALSE, NoLabel, FALSE)
    /\ events[3] = Event("c2", "stop", "ok", FALSE, NoLabel, FALSE)
    /\ listened[2] = ContainerEvent("Recreated", "c1", FALSE)
    /\ stopCalled
    /\ wResult = NilErr

(***************************************************************************)
(* C16: a die event of a restarting container hands the listener Exit with *)
(* restarting = true, increments the restart counter and leaves the        *)
(* container watched and, if it was expected, expected without cancelling  *)
(* the subscription; a die event of a container that is not restarting     *)
(* removes it from watched and from expected.                              *)
(***************************************************************************)
C16_DieRestarting ==
    [][\A e \in Inspected : (Handles(e) /\ e.status = "die") =>
          IF e.restarting
            THEN /\ Receives(ContainerEvent("Exit", e.container, TRUE))
                 /\ IsWatched(e.container)'
                 /\ watched'[e.container] =
                        (IF IsWatched(e.container) THEN watched[e.container] ELSE 0) + 1
                 /\ expected' = expected
                 /\ IsExpected(e.container) => ~stopCalled'
            ELSE /\ ~IsWatched(e.container)'
                 /\ ~IsExpected(e.container)']_vars

(***************************************************************************)
(* C17: a start event calls onStart exactly when the container is not      *)
(* watched (it is then watched with count 0 and appended to expected) or   *)
(* is watched with a count > 0 (watched and expected stay as they are); a  *)
(* start event of a watched container whose count is 0 calls nothing and   *)
(* changes neither watched nor expected; and a start event that follows    *)
(* the die event of the same restarting container calls onStart.           *)
(***************************************************************************)
C17_StartAttaches ==
    [][\A e \in Inspected : (Handles(e) /\ e.status = "start") =>
          /\ IF ~IsWatched(e.container) \/ watched[e.container] > 0
               THEN Receives(OnStartCall(e.container))
               ELSE Silent
          /\ IF ~IsWatched(e.container)
               THEN /\ DOMAIN watched' = DOMAIN watched \cup {e.container}
                    /\ watched'[e.container] = 0
                    /\ \A c \in DOMAIN watched : watched'[c] = watched[c]
                    /\ expected' = Append(expected, e.container)
               ELSE /\ watched' = watched
                    /\ expected' = expected
          /\ (/\ Len(events) > 0
              /\ events[Len(events)] = Event(e.container, "die", "ok", TRUE, NoLabel, FALSE))
               => Receives(OnStartCall(e.container))]_vars

\* c1 died restarting and started again: onStart was called for it
C17_Witness ==
    /\ "c1" \in containers
    /\ Len(events) = 2
    /\ events[1] = Event("c1", "die", "ok", TRUE, NoLabel, FALSE)
    /\ events[2] = Event("c1", "start", "ok", FALSE, NoLabel, FALSE)
    /\ listened[Len(listened)] = OnStartCall("c1")

(***************************************************************************)
(* C18: an event whose inspection fails with not-found removes its         *)
(* container from watched and from expected, calls neither the listener    *)
(* nor a callback, returns no error and leaves the other containers and    *)
(* replaced as they are; an event whose inspection fails otherwise changes *)
(* nothing and returns the error, after which no event is handled and      *)
(* watchContainers returns that error.                                     *)
(***************************************************************************)
C18_InspectFailure ==
    /\ [][\A e \in EngineEvents : Handles(e) =>
            /\ e.inspect = "notfound" =>
                  /\ ~IsWatched(e.container)'
                  /\ ~IsExpected(e.container)'
                  /\ Silent
                  /\ consumerErr' = NilErr
                  /\ replaced' = replaced
                  /\ \A c \in ContainerIDs \ {e.container} :
                        /\ IsWatched(c)' <=> IsWatched(c)
                        /\ IsWatched(c) => watched'[c] = watched[c]
                        /\ IsExpected(c)' <=> IsExpected(c)
            /\ e.inspect = "error" =>
                  /\ consumerErr' = InspectErr
                  /\ Silent
                  /\ UNCHANGED <<expected, watched, replaced, stopCalled>>]_vars
    /\ [][consumerErr # NilErr => events' = events]_vars
    /\ []((wpc = "returned" /\ consumerErr = InspectErr) => wResult = InspectErr)

\* c1 vanished before its inspection and c2 is still watched and expected
C18_Witness ==
    /\ containers = {"c1", "c2"}
    /\ events = << Event("c1", "kill", "notfound", FALSE, NoLabel, FALSE) >>
    /\ IsWatched("c2")
    /\ IsExpected("c2")
    /\ ~IsWatched("c1")

(***************************************************************************)
(* C20: after the seeding and after every handled event, every container   *)
(* in expected is a key of watched.                                        *)
(***************************************************************************)
C20_ExpectedWatched ==
    wpc \in {"events", "returned"} =>
        \A i \in 1..Len(expected) : expected[i] \in DOMAIN watched

\* a container that a start event made expected is watched
C20_Witness ==
    /\ wpc = "events"
    /\ Len(events) > 0
    /\ events[Len(events)].status = "start"
    /\ events[Len(events)].container \notin containers
    /\ IsExpected(events[Len(events)].container)
    /\ IsWatched(events[Len(events)].container)

====
